---- MODULE Spec2Model ----
(***************************************************************************)
(* godash: a terminal dashboard launcher.                                  *)
(*                                                                         *)
(* Spec            the restart-the-loop launcher (src/unnamed/part_002):   *)
(*                 main, run, the key handlers of the list view and of the *)
(*                 add flow, config.json, and runApplication with its two  *)
(*                 goroutines and the host's signal handling.              *)
(* Spec3           the earlier launcher (src/unnamed/part_003), which runs *)
(*                 the command inside the key handler.                     *)
(* SpecM           the three-panel Model of src/main.go from               *)
(*                 initialModel(), driven by Update.                       *)
(* SpecPanels      the methods of Model on Models with shorter and empty   *)
(*                 panels, and halfName on any short title.                *)
(* SpecLaunchInDir launchInDir (src/unnamed/part_001) in any environment.  *)
(* SpecTwoPane     the two-pane prototype (src/unnamed/part_004) from its  *)
(*                 initialModel(), driven by Update.                       *)
(* SpecFair        Spec with the goroutines of runApplication scheduled.   *)
(***************************************************************************)
EXTENDS Integers, Sequences, FiniteSets, TLC

(***************************************************************************)
(* Bounds of the model.                                                    *)
(***************************************************************************)
\* longest application list a config.json found at startup holds
MaxApps == 2
\* signals the host receives while one runApplication has its channel installed
MaxSignals == 2
\* longest application list the add flow grows
MaxListLen == 3

\* longest title handed to halfName when it is called on its own
MaxTitleLen == 4
\* longest value of GO_DASH_LAUNCH_IN_DIR in the environment
MaxEnvLen == 3

(***************************************************************************)
(* Values.                                                                 *)
(***************************************************************************)
\* a nil *Application; a non-nil one is the 1-based position it points at in
\* applications (&applications[index] is position index + 1)
Nil == 0

Application(n, c) == [Name |-> n, Command |-> c]

\* the three entries createDefaultConfig writes
DefaultApplications ==
    << Application("LazyGit", "lazygit"),
       Application("LazyDocker", "lazydocker"),
       Application("LazySSH", "lazyssh") >>

AppPool == { DefaultApplications[i] : i \in 1..3 }

RECURSIVE SeqsUpTo(_, _)
SeqsUpTo(S, n) ==
    IF n = 0 THEN { <<>> }
    ELSE LET shorter == SeqsUpTo(S, n - 1)
         IN  shorter \cup { Append(s, x) : s \in shorter, x \in S }

NoRepeat(s) == \A i, j \in 1..Len(s) : i # j => s[i] # s[j]

\* application lists a config.json may hold when the program starts
AppLists == { s \in SeqsUpTo(AppPool, MaxApps) : NoRepeat(s) }

\* json.MarshalIndent(Config{Applications: apps}): the document, with the
\* keys of the struct tags
MarshalConfig(apps) ==
    [applications |->
        [i \in 1..Len(apps) |->
            [name |-> apps[i].Name, command |-> apps[i].Command]]]

\* json.Unmarshal(file, &config), then config.Applications
UnmarshalConfig(doc) ==
    [i \in 1..Len(doc.applications) |->
        Application(doc.applications[i].name, doc.applications[i].command)]

\* config.json on disk: absent, unreadable or malformed, or a document
NoDoc == MarshalConfig(<<>>)

ConfigFiles ==
    { [kind |-> "absent", doc |-> NoDoc], [kind |-> "bad", doc |-> NoDoc] }
    \cup { [kind |-> "ok", doc |-> MarshalConfig(l)] : l \in AppLists }

\* how ioutil.WriteFile ends: it wrote data, it could not open the file, or
\* it truncated the file and could not write all of data
WriteResults == { "ok", "open failed", "write failed" }

\* config.json after ioutil.WriteFile("config.json", data, 0644)
WriteFile(file, data, result) ==
    CASE result = "ok" -> [kind |-> "ok", doc |-> data]
      [] result = "open failed" -> file
      [] result = "write failed" -> [kind |-> "bad", doc |-> NoDoc]

\* the texts the add flow's two input views can hold after any edits
TypedTexts == { "", "htop" }

\* the views of the Gui
ListViews == { "list", "dashboard", "footer" }
ModalViews == { "add_modal", "add_name", "add_cmd" }

\* the signals runApplication asks to be notified of
Signals == { "SIGINT", "SIGTERM" }

\* how a child process ends: syscall.WaitStatus as (signal, exit code);
\* signal "none" is Signal() = -1, an exit code of -1 is "signaled"
WaitStatuses ==
    { [signal |-> "none", exit |-> 0], [signal |-> "none", exit |-> 1],
      [signal |-> "SIGINT", exit |-> -1], [signal |-> "SIGTERM", exit |-> -1],
      [signal |-> "SIGKILL", exit |-> -1] }

\* the zero value of an os.Signal variable
NoSignal == "none"

NoStatus == [signal |-> "none", exit |-> -1]

\* the error values cmd.Wait returns
NilErr == [type |-> "nil", status |-> NoStatus]
ExitError(ws) == [type |-> "ExitError", status |-> ws]
OtherErr == [type |-> "other", status |-> NoStatus]

VARIABLES
    \* ---- src/unnamed/part_002: package state
    configFile,     \* config.json on disk
    applications,   \* var applications []Application
    pendingApp,     \* var pendingApp *Application
    \* ---- main and run
    hostpc,         \* where the host's main goroutine is
    exitReason,     \* why the host process ended ("none" while it runs)
    guiOpen,        \* a gocui Gui exists and owns the terminal
    cursorY,        \* row of the "list" view's cursor; 0 when there is no view
    views,          \* names of the views the Gui holds
    currentView,    \* name of the Gui's current view, "none" without one
    nameText,       \* the line in view add_name, "" when empty or no view
    cmdText,        \* the line in view add_cmd
    runErr,         \* the error run() returns to main
    app,            \* main's local app, runApplication's argument
    \* ---- runApplication
    rpc,            \* the line runApplication is at
    childState,     \* "none", "running", "exited"
    childCmd,       \* cmd: the command line exec.Command gave to sh -c
    childStatus,    \* the wait status of the child that exited
    notify,         \* signal.Notify(sigChan, ...) is in effect
    sigChan,        \* buffer of sigChan (capacity 1)
    sigClosed,      \* close(sigChan) happened
    done,           \* buffer of done (capacity 1)
    waitpc,         \* goroutine  done <- cmd.Wait()
    fwdpc,          \* goroutine  for sig := range sigChan
    fwdSig,         \* its loop variable sig
    err,            \* err := <-done
    \* ---- history of the launch in progress (observations, not program
    \* ---- state); a launch lasts from Enter until run() is called again
    requested,      \* the entry Enter was pressed on, Nil when no launch
    owed,           \* launch requests made minus calls of runApplication
    nRecv,          \* signals the host received while its channel was installed
    dropped,        \* of those, the ones discarded while the child was running
    startLogged,    \* "Error starting command:" lines logged
    runLogged,      \* "Error running command:" lines logged
    \* ---- src/main.go: type Model, and whether the tea program runs
    focus, width, height,
    nTop, nMid, nBottom,    \* len(topItems), len(midItems), len(bottomItems)
    topCursor, midCursor, bottomCursor,
    rightTitle, rightBody,
    teaState,       \* "running", or "quit" once Update returned tea.Quit
    \* ---- functions called on their own, with their argument and result
    halfNameCall,   \* func (m *Model) halfName(title string) string
    launchCall,     \* func launchInDir(dir string) error
    \* ---- src/unnamed/part_004: type model; its width and height are the
    \* ---- variables width and height above, its tea program is teaState
    panel, navCursor, mainCursor,
    selected        \* the keys of the map selected

cfgVars == << configFile, applications >>
mainVars == << pendingApp, hostpc, exitReason, runErr, app >>
modalVars == << views, currentView, nameText, cmdText >>
guiVars == << guiOpen, cursorY, modalVars >>
childVars == << childState, childCmd, childStatus >>
sigVars == << notify, sigChan, sigClosed >>
goVars == << done, waitpc, fwdpc, fwdSig, err >>
histVars == << requested, owed, nRecv, dropped, startLogged, runLogged >>

launcherVars ==
    << cfgVars, mainVars, guiVars, rpc, childVars, sigVars, goVars, histVars >>

panelVars ==
    << focus, width, height, nTop, nMid, nBottom, topCursor, midCursor,
       bottomCursor, rightTitle, rightBody, teaState >>

helperVars == << halfNameCall, launchCall >>

twoPaneVars == << panel, navCursor, mainCursor, selected >>

\* what the launcher's actions leave alone
otherVars == << panelVars, helperVars, twoPaneVars >>

vars == << launcherVars, panelVars, helperVars, twoPaneVars >>

(***************************************************************************)
(* src/main.go: the three-panel model                                      *)
(***************************************************************************)
PanelTUI == 0
PanelDirs == 1
PanelShortcuts == 2

\* Go strings are modelled as sequences of one-character strings
\* type Item struct { Title, Description, Path string }
Item(t, d, p) == [Title |-> t, Description |-> d, Path |-> p]

InitialTop0Title ==
    << "T", "U", "I", " ", "A", "p", "p", "s", ":", " ", "C", "l", "o", "c",
       "k" >>

InitialTop0Description ==
    << "A", " ", "t", "e", "r", "m", "i", "n", "a", "l", " ", "c", "l", "o",
       "c", "k", " ", "w", "i", "d", "g", "e", "t" >>

InitialTop1Title ==
    << "T", "U", "I", " ", "A", "p", "p", "s", ":", " ", "C", "a", "l", "e",
       "n", "d", "a", "r" >>

InitialTop1Description ==
    << "C", "a", "l", "e", "n", "d", "a", "r", " ", "i", "n", " ", "t", "e",
       "r", "m", "i", "n", "a", "l" >>

InitialTop2Title ==
    << "T", "U", "I", " ", "A", "p", "p", "s", ":", " ", "N", "o", "t", "e",
       "s" >>

InitialTop2Description ==
    << "N", "o", "t", "e", "s", " ", "a", "p", "p", " ", "i", "n", " ", "t",
       "e", "r", "m", "i", "n", "a", "l" >>

InitialTop3Title ==
    << "T", "U", "I", " ", "A", "p", "p", "s", ":", " ", "T", "o", "d", "o" >>

InitialTop3Description ==
    << "T", "i", "n", "y", " ", "t", "o", "d", "o", " ", "a", "p", "p" >>

\* initialModel().topItems
InitialTopItems ==
    << Item(InitialTop0Title, InitialTop0Description, <<>>),
       Item(InitialTop1Title, InitialTop1Description, <<>>),
       Item(InitialTop2Title, InitialTop2Description, <<>>),
       Item(InitialTop3Title, InitialTop3Description, <<>>) >>

InitialMid0Title ==
    << "D", "e", "v", " ", "P", "r", "o", "j", "e", "c", "t", "s" >>

InitialMid0Path ==
    << "/", "h", "o", "m", "e", "/", "y", "o", "u", "/", "p", "r", "o", "j",
       "e", "c", "t", "s" >>

InitialMid1Title ==
    << "W", "o", "r", "k" >>

InitialMid1Path ==
    << "/", "h", "o", "m", "e", "/", "y", "o", "u", "/", "w", "o", "r", "k" >>

InitialMid2Title ==
    << "D", "o", "c", "s" >>

InitialMid2Path ==
    << "/", "h", "o", "m", "e", "/", "y", "o", "u", "/", "d", "o", "c", "s" >>

\* initialModel().midItems
InitialMidItems ==
    << Item(InitialMid0Title, <<>>, InitialMid0Path),
       Item(InitialMid1Title, <<>>, InitialMid1Path),
       Item(InitialMid2Title, <<>>, InitialMid2Path) >>

InitialBottom0Title ==
    << "H", "o", "m", "e" >>

InitialBottom0Path ==
    << "/", "h", "o", "m", "e", "/", "y", "o", "u" >>

InitialBottom1Title ==
    << "D", "o", "w", "n", "l", "o", "a", "d", "s" >>

InitialBottom1Path ==
    << "/", "h", "o", "m", "e", "/", "y", "o", "u", "/", "D", "o", "w", "n",
       "l", "o", "a", "d", "s" >>

InitialBottom2Title ==
    << "C", "o", "n", "f", "i", "g", "s" >>

InitialBottom2Path ==
    << "/", "h", "o", "m", "e", "/", "y", "o", "u", "/", ".", "c", "o", "n",
       "f", "i", "g" >>

\* initialModel().bottomItems
InitialBottomItems ==
    << Item(InitialBottom0Title, <<>>, InitialBottom0Path),
       Item(InitialBottom1Title, <<>>, InitialBottom1Path),
       Item(InitialBottom2Title, <<>>, InitialBottom2Path) >>

\* "HTOP Preview: "
PreviewTitlePrefix ==
    << "H", "T", "O", "P", " ", "P", "r", "e", "v", "i", "e", "w", ":", " " >>

\* "Preview: "
PreviewBodyPrefix ==
    << "P", "r", "e", "v", "i", "e", "w", ":", " " >>

\* the rest of renderHTOPPreview's format string
PreviewBodyRest ==
    << "\n", "C", "P", "U", " ", " ", "1", "2", "%", " ", " ", "[", "|", "|",
       " ", " ", " ", " ", " ", " ", " ", " ", "]", "\n", "M", "e", "m", " ",
       " ", "4", "7", "%", " ", " ", "[", "|", "|", "|", "|", " ", " ", " ",
       " ", " ", " ", "]", "\n", "T", "a", "s", "k", "s", " ", "4", "2", " ",
       "(", "t", "h", "r", "e", "a", "d", "s", ":", " ", "6", ")", "\n", "U",
       "p", " ", "1", "d", " ", "2", "h" >>

\* The entries of a panel never change after the Model is built, so the
\* state records how many entries each panel holds and the fields topItems,
\* midItems and bottomItems are read off initialModel's lists.
topItems == SubSeq(InitialTopItems, 1, nTop)
midItems == SubSeq(InitialMidItems, 1, nMid)
bottomItems == SubSeq(InitialBottomItems, 1, nBottom)

\* initialModel()
initialModel ==
    /\ focus = PanelTUI
    /\ width = 0
    /\ height = 0
    /\ nTop = Len(InitialTopItems)
    /\ nMid = Len(InitialMidItems)
    /\ nBottom = Len(InitialBottomItems)
    /\ topCursor = 0
    /\ midCursor = 0
    /\ bottomCursor = 0
    /\ rightTitle = <<>>
    /\ rightBody = <<>>
    /\ teaState = "running"

\* the model's fields other than the three cursors and focus
paneVars == << rightTitle, rightBody >>
sizeVars == << width, height >>
itemVars == << nTop, nMid, nBottom >>
cursorVars == << topCursor, midCursor, bottomCursor >>

\* tea.KeyMsg.String() values: the bound keys and one that is not bound
Keys == { "ctrl+c", "q", "tab", "up", "k", "down", "j", "enter", " ", "x" }

\* the sizes a tea.WindowSizeMsg brings
WindowSizes == { << 80, 24 >>, << 120, 30 >> }

\* cycleFocus going round the other way
cycleFocusBack ==
    focus' = (focus + 2) % 3

\* func (m *Model) cycleFocus()
cycleFocus ==
    focus' = (focus + 1) % 3

\* navigateUp wrapping from the first entry to the last
navigateUpWraps ==
    /\ topCursor' = IF focus # PanelTUI THEN topCursor
                    ELSE IF topCursor > 0 THEN topCursor - 1
                    ELSE IF Len(topItems) > 0 THEN Len(topItems) - 1
                    ELSE topCursor
    /\ midCursor' = IF focus # PanelDirs THEN midCursor
                    ELSE IF midCursor > 0 THEN midCursor - 1
                    ELSE IF Len(midItems) > 0 THEN Len(midItems) - 1
                    ELSE midCursor
    /\ bottomCursor' = IF focus # PanelShortcuts THEN bottomCursor
                       ELSE IF bottomCursor > 0 THEN bottomCursor - 1
                       ELSE IF Len(bottomItems) > 0 THEN Len(bottomItems) - 1
                       ELSE bottomCursor

\* func (m *Model) navigateUp()
navigateUp ==
    /\ topCursor' = IF focus = PanelTUI /\ topCursor > 0
                    THEN topCursor - 1 ELSE topCursor
    /\ midCursor' = IF focus = PanelDirs /\ midCursor > 0
                    THEN midCursor - 1 ELSE midCursor
    /\ bottomCursor' = IF focus = PanelShortcuts /\ bottomCursor > 0
                       THEN bottomCursor - 1 ELSE bottomCursor

\* navigateDown with the bound off by one: len(items) for len(items)-1
navigateDownPastEnd ==
    /\ topCursor' = IF focus = PanelTUI /\ topCursor < Len(topItems)
                    THEN topCursor + 1 ELSE topCursor
    /\ midCursor' = IF focus = PanelDirs /\ midCursor < Len(midItems)
                    THEN midCursor + 1 ELSE midCursor
    /\ bottomCursor' = IF focus = PanelShortcuts /\ bottomCursor < Len(bottomItems)
                       THEN bottomCursor + 1 ELSE bottomCursor

\* func (m *Model) navigateDown()
navigateDown ==
    /\ topCursor' = IF focus = PanelTUI /\ topCursor < Len(topItems) - 1
                    THEN topCursor + 1 ELSE topCursor
    /\ midCursor' = IF focus = PanelDirs /\ midCursor < Len(midItems) - 1
                    THEN midCursor + 1 ELSE midCursor
    /\ bottomCursor' = IF focus = PanelShortcuts /\ bottomCursor < Len(bottomItems) - 1
                       THEN bottomCursor + 1 ELSE bottomCursor

\* unicode.IsSpace on the characters the model's strings hold
IsSpace(c) == c \in { " ", "\t", "\n", "\r" }

RECURSIVE TrimLeft(_)
TrimLeft(str) ==
    IF Len(str) > 0 /\ IsSpace(Head(str)) THEN TrimLeft(Tail(str)) ELSE str

RECURSIVE TrimRight(_)
TrimRight(str) ==
    IF Len(str) > 0 /\ IsSpace(str[Len(str)])
    THEN TrimRight(SubSeq(str, 1, Len(str) - 1))
    ELSE str

\* strings.TrimSpace
TrimSpace(str) == TrimRight(TrimLeft(str))

\* strings.Index(str, c): the 1-based position of the first c, 0 when absent
RECURSIVE IndexFrom(_, _, _)
IndexFrom(str, c, i) ==
    IF i > Len(str) THEN 0
    ELSE IF str[i] = c THEN i
    ELSE IndexFrom(str, c, i + 1)

\* strings.SplitN(str, ":", 2)
SplitN2(str) ==
    LET i == IndexFrom(str, ":", 1)
    IN  IF i = 0 THEN << str >>
        ELSE << SubSeq(str, 1, i - 1), SubSeq(str, i + 1, Len(str)) >>

\* halfName with the text after the last ':' for the text after the first
halfNameLastColon(title) ==
    LET RECURSIVE LastIndex(_)
        LastIndex(i) ==
            IF i = 0 THEN 0
            ELSE IF title[i] = ":" THEN i
            ELSE LastIndex(i - 1)
        i == LastIndex(Len(title))
    IN  IF i > 0 THEN TrimSpace(SubSeq(title, i + 1, Len(title)))
        ELSE TrimSpace(title)

\* func (m *Model) halfName(title string) string
halfName(title) ==
    LET parts == SplitN2(title)
    IN  IF Len(parts) = 2 THEN TrimSpace(parts[2]) ELSE TrimSpace(title)

\* func (m *Model) renderHTOPPreview(name string) string
renderHTOPPreview(name) == PreviewBodyPrefix \o name \o PreviewBodyRest

\* the focused panel's items and cursor, as activateCurrent's switch picks them
FocusedItems ==
    CASE focus = PanelTUI -> topItems
      [] focus = PanelDirs -> midItems
      [] focus = PanelShortcuts -> bottomItems

FocusedCursor ==
    CASE focus = PanelTUI -> topCursor
      [] focus = PanelDirs -> midCursor
      [] focus = PanelShortcuts -> bottomCursor

\* activateCurrent blanking the right pane when there is no entry to show
activateCurrentClears ==
    IF FocusedCursor < Len(FocusedItems)
    THEN LET it == FocusedItems[FocusedCursor + 1]
             name == halfName(it.Title)
         IN  /\ rightTitle' = PreviewTitlePrefix \o name
             /\ rightBody' = renderHTOPPreview(name)
    ELSE /\ rightTitle' = <<>>
         /\ rightBody' = <<>>

\* func (m *Model) activateCurrent(): the three cases have the same body
activateCurrent ==
    IF FocusedCursor < Len(FocusedItems)
    THEN LET it == FocusedItems[FocusedCursor + 1]
             name == halfName(it.Title)
         IN  /\ rightTitle' = PreviewTitlePrefix \o name
             /\ rightBody' = renderHTOPPreview(name)
    ELSE UNCHANGED paneVars

\* func (m *Model) Update(msg tea.Msg), msg a tea.KeyMsg
UpdateKey(key) ==
    /\ teaState = "running"
    /\ CASE key \in { "ctrl+c", "q" } ->
              /\ teaState' = "quit"
              /\ UNCHANGED << focus, cursorVars, paneVars >>
         [] key = "tab" ->
              /\ cycleFocus
              /\ UNCHANGED << cursorVars, paneVars, teaState >>
         [] key \in { "up", "k" } ->
              /\ navigateUp
              /\ UNCHANGED << focus, paneVars, teaState >>
         [] key \in { "down", "j" } ->
              /\ navigateDown
              /\ UNCHANGED << focus, paneVars, teaState >>
         [] key \in { "enter", " " } ->
              /\ activateCurrent
              /\ UNCHANGED << focus, cursorVars, teaState >>
         [] OTHER ->
              UNCHANGED << focus, cursorVars, paneVars, teaState >>
    /\ UNCHANGED << sizeVars, itemVars >>
    /\ UNCHANGED << launcherVars, helperVars, twoPaneVars >>

\* Update on a tea.WindowSizeMsg that also puts every cursor back on 0
UpdateWindowSizeResets(size) ==
    /\ teaState = "running"
    /\ width' = size[1]
    /\ height' = size[2]
    /\ topCursor' = 0
    /\ midCursor' = 0
    /\ bottomCursor' = 0
    /\ UNCHANGED << focus, paneVars, itemVars, teaState >>
    /\ UNCHANGED << launcherVars, helperVars, twoPaneVars >>

\* func (m *Model) Update(msg tea.Msg), msg a tea.WindowSizeMsg
UpdateWindowSize(size) ==
    /\ teaState = "running"
    /\ width' = size[1]
    /\ height' = size[2]
    /\ UNCHANGED << focus, cursorVars, paneVars, itemVars, teaState >>
    /\ UNCHANGED << launcherVars, helperVars, twoPaneVars >>

(***************************************************************************)
(* halfName and launchInDir (src/unnamed/part_001) called on their own     *)
(***************************************************************************)
\* the characters of the titles halfName is called with: a letter, the
\* separator and a blank
TitleChars == { "a", ":", " " }

Titles == SeqsUpTo(TitleChars, MaxTitleLen)

\* no call of halfName: the zero values of its argument and result
NoHalfNameCall == [title |-> <<>>, done |-> FALSE, name |-> <<>>]

HalfNameCalls == { [NoHalfNameCall EXCEPT !.title = t] : t \in Titles }

\* name := m.halfName(title)
CallHalfName ==
    /\ teaState = "none"
    /\ ~halfNameCall.done
    /\ halfNameCall' = [halfNameCall EXCEPT !.done = TRUE,
                                            !.name = halfName(halfNameCall.title)]
    /\ UNCHANGED << launcherVars, panelVars, launchCall, twoPaneVars >>

\* the characters of a value of GO_DASH_LAUNCH_IN_DIR: a blank and a digit
EnvChars == { " ", "1" }

\* the process environment: the variable is unset, or set to a value
Environments ==
    { [set |-> FALSE, value |-> <<>>] }
    \cup { [set |-> TRUE, value |-> v] : v \in SeqsUpTo(EnvChars, MaxEnvLen) }

\* os.Getenv: the value, "" when the variable is not set
Getenv(env) == IF env.set THEN env.value ELSE <<>>

\* what os.Stat(dir) finds: a directory, something else, or nothing
DirKinds == { "dir", "file", "missing" }

\* what cmd.Run() of bash returns
RunResults == { "nil", "error" }

\* no call of launchInDir
NoLaunchCall ==
    [env |-> [set |-> FALSE, value |-> <<>>], dir |-> "missing",
     done |-> FALSE, spawned |-> FALSE, printed |-> FALSE, ret |-> "nil"]

LaunchCalls ==
    { [NoLaunchCall EXCEPT !.env = e, !.dir = d] :
          e \in Environments, d \in DirKinds }

\* func launchInDir(dir string) error; spawned is "cmd.Run() was called",
\* printed is "the Would launch shell message was written"
launchInDir(run) ==
    /\ ~launchCall.done
    /\ LET v == Getenv(launchCall.env)
       IN  IF TrimSpace(v) # <<>>
           THEN IF launchCall.dir = "dir"
                THEN launchCall' = [launchCall EXCEPT !.done = TRUE,
                                                      !.spawned = TRUE,
                                                      !.ret = run]
                ELSE launchCall' = [launchCall EXCEPT
                                        !.done = TRUE,
                                        !.ret = "directory does not exist"]
           ELSE launchCall' = [launchCall EXCEPT !.done = TRUE,
                                                 !.printed = TRUE,
                                                 !.ret = "nil"]
    /\ UNCHANGED << launcherVars, panelVars, halfNameCall, twoPaneVars >>

\* neither function is called
NoCalls ==
    /\ halfNameCall = NoHalfNameCall
    /\ launchCall = NoLaunchCall

(***************************************************************************)
(* src/unnamed/part_004: the two-pane prototype                            *)
(***************************************************************************)
\* type Panel int
NavigationPanel == 0
MainPanel == 1
StatusPanel == 2

\* the slices initialModel() builds; Update never assigns them
navItems == << "Groceries", "Tasks", "Notes", "Settings" >>
choices ==
    << "Buy carrots", "Buy celery", "Buy kohlrabi", "Buy cheese", "Buy burgers" >>

\* func initialModel() model; the cursors, width and height are zero values
initialModelTwoPane ==
    /\ panel = MainPanel
    /\ navCursor = 0
    /\ mainCursor = 0
    /\ selected = {}
    /\ width = 0
    /\ height = 0
    /\ teaState = "running"

\* the model of a two-pane program that was not started
NoTwoPane ==
    /\ panel = NavigationPanel
    /\ navCursor = 0
    /\ mainCursor = 0
    /\ selected = {}

\* tabPanel stepping through all three panels: (p + 1) % 3
tabPanelCycles(p) == (p + 1) % 3

\* case "tab": the value of m.panel after the switch on m.panel
tabPanel(p) ==
    CASE p = NavigationPanel -> MainPanel
      [] p = MainPanel -> NavigationPanel
      [] OTHER -> p

\* case "tab": a cursor after "ensure cursor is in bounds" for a list of
\* length n
ensureInBounds(cursor, n) ==
    IF cursor >= n /\ n > 0 THEN n - 1 ELSE cursor

\* what the main.go model's variables other than width, height and teaState
\* are to the two-pane program
mainGoVars == << focus, cursorVars, paneVars, itemVars >>

\* func (m model) Update(msg tea.Msg), msg a tea.KeyMsg
TwoPaneUpdateKey(key) ==
    /\ teaState = "running"
    /\ CASE key \in { "ctrl+c", "q" } ->
             /\ teaState' = "quit"
             /\ UNCHANGED twoPaneVars
        [] key = "tab" ->
             /\ panel' = tabPanel(panel)
             /\ mainCursor' = IF panel = NavigationPanel
                              THEN ensureInBounds(mainCursor, Len(choices))
                              ELSE mainCursor
             /\ navCursor' = IF panel = MainPanel
                             THEN ensureInBounds(navCursor, Len(navItems))
                             ELSE navCursor
             /\ UNCHANGED << selected, teaState >>
        [] key \in { "up", "k" } ->
             /\ navCursor' = IF panel = NavigationPanel /\ navCursor > 0
                             THEN navCursor - 1 ELSE navCursor
             /\ mainCursor' = IF panel = MainPanel /\ mainCursor > 0
                              THEN mainCursor - 1 ELSE mainCursor
             /\ UNCHANGED << panel, selected, teaState >>
        [] key \in { "down", "j" } ->
             /\ navCursor' = IF /\ panel = NavigationPanel
                                /\ navCursor < Len(navItems) - 1
                             THEN navCursor + 1 ELSE navCursor
             /\ mainCursor' = IF /\ panel = MainPanel
                                 /\ mainCursor < Len(choices) - 1
                              THEN mainCursor + 1 ELSE mainCursor
             /\ UNCHANGED << panel, selected, teaState >>
        [] key \in { "enter", " " } ->
             /\ selected' = IF panel = MainPanel
                            THEN IF mainCursor \in selected
                                 THEN selected \ { mainCursor }
                                 ELSE selected \cup { mainCursor }
                            ELSE selected
             /\ UNCHANGED << panel, navCursor, mainCursor, teaState >>
        [] OTHER -> UNCHANGED << twoPaneVars, teaState >>
    /\ UNCHANGED << sizeVars, mainGoVars, launcherVars, helperVars >>

\* func (m model) Update(msg tea.Msg), msg a tea.WindowSizeMsg
TwoPaneUpdateWindowSize(size) ==
    /\ teaState = "running"
    /\ width' = size[1]
    /\ height' = size[2]
    /\ UNCHANGED << twoPaneVars, teaState, mainGoVars, launcherVars, helperVars >>

(***************************************************************************)
(* src/unnamed/part_002: main, run and the key handlers of the list view   *)
(***************************************************************************)
InitLauncher ==
    /\ configFile \in ConfigFiles
    /\ applications = <<>>
    /\ pendingApp = Nil
    /\ hostpc = "start"
    /\ exitReason = "none"
    /\ guiOpen = FALSE
    /\ cursorY = 0
    /\ views = {}
    /\ currentView = "none"
    /\ nameText = ""
    /\ cmdText = ""
    /\ runErr = "nil"
    /\ app = Nil
    /\ rpc = "idle"
    /\ childState = "none"
    /\ childCmd = ""
    /\ childStatus = NoStatus
    /\ notify = FALSE
    /\ sigChan = <<>>
    /\ sigClosed = FALSE
    /\ done = <<>>
    /\ waitpc = "none"
    /\ fwdpc = "none"
    /\ fwdSig = NoSignal
    /\ err = NilErr
    /\ requested = Nil
    /\ owed = 0
    /\ nRecv = 0
    /\ dropped = 0
    /\ startLogged = 0
    /\ runLogged = 0

\* the launcher is another program than src/main.go: no Model exists
NoModel ==
    /\ focus = PanelTUI
    /\ width = 0
    /\ height = 0
    /\ nTop = 0
    /\ nMid = 0
    /\ nBottom = 0
    /\ topCursor = 0
    /\ midCursor = 0
    /\ bottomCursor = 0
    /\ rightTitle = <<>>
    /\ rightBody = <<>>
    /\ teaState = "none"

Init == InitLauncher /\ NoModel /\ NoCalls /\ NoTwoPane

\* The host process ends (log.Panicln, main returns, or the default action of
\* a signal): its memory and its goroutines are gone.  config.json, a child
\* it started and what was observed of the launch remain.
Exit(reason) ==
    /\ hostpc' = "terminated"
    /\ exitReason' = reason
    /\ applications' = <<>>
    /\ pendingApp' = Nil
    /\ guiOpen' = FALSE
    /\ cursorY' = 0
    /\ views' = {}
    /\ currentView' = "none"
    /\ nameText' = ""
    /\ cmdText' = ""
    /\ runErr' = "nil"
    /\ app' = Nil
    /\ rpc' = "idle"
    /\ notify' = FALSE
    /\ sigChan' = <<>>
    /\ sigClosed' = FALSE
    /\ done' = <<>>
    /\ waitpc' = "none"
    /\ fwdpc' = "none"
    /\ fwdSig' = NoSignal
    /\ err' = NilErr

\* createDefaultConfig called whether or not config.json exists
createDefaultConfigOverwrites(file, result) ==
    WriteFile(file, MarshalConfig(DefaultApplications), result)

\* main's os.Stat test and createDefaultConfig: the file that is on disk
\* afterwards.  When the write fails createDefaultConfig panics, and the file
\* it leaves is one loadConfig would fail on as well.
createDefaultConfig(file, result) ==
    IF file.kind = "absent"
    THEN WriteFile(file, MarshalConfig(DefaultApplications), result)
    ELSE file

\* main, up to the for loop: default config, loadConfig, applications
Startup ==
    /\ hostpc = "start"
    /\ \E result \in WriteResults :
           configFile' = createDefaultConfig(configFile, result)
    /\ IF configFile'.kind = "ok"
       THEN /\ applications' = UnmarshalConfig(configFile'.doc)
            /\ hostpc' = "loop"
            /\ UNCHANGED << pendingApp, exitReason, runErr, app, guiVars, rpc,
                            sigVars, goVars >>
       ELSE Exit("config")
    /\ UNCHANGED << childVars, histVars >>
    /\ UNCHANGED otherVars

\* the row layout puts the cursor on when it creates the "list" view
FirstRow == 2

\* run() is called: the launch that led here, if any, is over
LaunchOver ==
    /\ requested' = Nil
    /\ nRecv' = 0
    /\ dropped' = 0
    /\ startLogged' = 0
    /\ runLogged' = 0
    /\ UNCHANGED owed

\* run(): gocui.NewGui succeeds, the key bindings are set, MainLoop's first
\* layout creates the views and puts the list cursor on the first entry
RunUI ==
    /\ hostpc = "loop"
    /\ guiOpen' = TRUE
    /\ cursorY' = FirstRow
    /\ views' = ListViews
    /\ currentView' = "list"
    /\ UNCHANGED << nameText, cmdText >>
    /\ hostpc' = "ui"
    /\ LaunchOver
    /\ UNCHANGED << cfgVars, pendingApp, exitReason, runErr, app, rpc, childVars,
                    sigVars, goVars >>
    /\ UNCHANGED otherVars

\* run(): gocui.NewGui fails and run returns its error before any Gui exists
NewGuiFails ==
    /\ hostpc = "loop"
    /\ runErr' = "other"
    /\ hostpc' = "main"
    /\ LaunchOver
    /\ UNCHANGED << cfgVars, pendingApp, exitReason, app, guiVars, rpc, childVars,
                    sigVars, goVars >>
    /\ UNCHANGED otherVars

\* cursorDown with the bound off by one: len(applications)+2
CursorDownPastEnd ==
    /\ hostpc = "ui"
    /\ currentView = "list"
    /\ cursorY' = IF cursorY < Len(applications) + 2 THEN cursorY + 1 ELSE cursorY
    /\ UNCHANGED << cfgVars, mainVars, guiOpen, modalVars, rpc, childVars, sigVars,
                    goVars, histVars >>
    /\ UNCHANGED otherVars

\* cursorDown on the list view
CursorDown ==
    /\ hostpc = "ui"
    /\ currentView = "list"
    /\ cursorY' = IF cursorY < Len(applications) + 1 THEN cursorY + 1 ELSE cursorY
    /\ UNCHANGED << cfgVars, mainVars, guiOpen, modalVars, rpc, childVars, sigVars, goVars,
                    histVars >>
    /\ UNCHANGED otherVars

\* cursorUp on the list view
CursorUp ==
    /\ hostpc = "ui"
    /\ currentView = "list"
    /\ cursorY' = IF cursorY > 2 THEN cursorY - 1 ELSE cursorY
    /\ UNCHANGED << cfgVars, mainVars, guiOpen, modalVars, rpc, childVars, sigVars, goVars,
                    histVars >>
    /\ UNCHANGED otherVars

\* getAppFromCursor: the entry under row y, or nil
getAppFromCursor(y) ==
    LET index == y - 2
    IN  IF index >= 0 /\ index < Len(applications) THEN index + 1 ELSE Nil

\* a key handler returned e: MainLoop returns it and run's deferred g.Close()
\* is what comes next
MainLoopReturns(e) ==
    /\ runErr' = e
    /\ hostpc' = "unwind"

\* RunApp bound with view name "" (every view) where run() has "list"
RunAppAnyView ==
    /\ hostpc = "ui"
    /\ IF getAppFromCursor(cursorY) = Nil
       THEN UNCHANGED << pendingApp, hostpc, runErr, requested, owed >>
       ELSE /\ pendingApp' = getAppFromCursor(cursorY)
            /\ MainLoopReturns("ErrRestart")
            /\ requested' = getAppFromCursor(cursorY)
            /\ owed' = owed + 1
    /\ UNCHANGED << cfgVars, exitReason, app, guiVars, rpc, childVars, sigVars,
                    goVars, nRecv, dropped, startLogged, runLogged >>
    /\ UNCHANGED otherVars

\* runApp: Enter on the list view
RunApp ==
    /\ hostpc = "ui"
    /\ currentView = "list"
    /\ IF getAppFromCursor(cursorY) = Nil
       THEN UNCHANGED << pendingApp, hostpc, runErr, requested, owed >>
       ELSE /\ pendingApp' = getAppFromCursor(cursorY)
            /\ MainLoopReturns("ErrRestart")
            /\ requested' = getAppFromCursor(cursorY)
            /\ owed' = owed + 1
    /\ UNCHANGED << cfgVars, exitReason, app, guiVars, rpc, childVars, sigVars,
                    goVars, nRecv, dropped, startLogged, runLogged >>
    /\ UNCHANGED otherVars

\* refreshDashboard: 'r' on the list view repaints the dashboard
RefreshDashboard ==
    /\ hostpc = "ui"
    /\ currentView = "list"
    /\ UNCHANGED vars

\* openAddModal: 'a' on the list view creates the three modal views and
\* makes add_name the current view
OpenAddModal ==
    /\ hostpc = "ui"
    /\ currentView = "list"
    /\ views' = views \cup ModalViews
    /\ currentView' = "add_name"
    /\ UNCHANGED << cfgVars, mainVars, guiOpen, cursorY, nameText, cmdText, rpc,
                    childVars, sigVars, goVars, histVars >>
    /\ UNCHANGED otherVars

\* gocui.DefaultEditor on the current input view: keys that have no binding
\* edit its line; text is the line after the edits
EditText(text) ==
    /\ hostpc = "ui"
    /\ currentView \in { "add_name", "add_cmd" }
    /\ Len(applications) < MaxListLen
    /\ IF currentView = "add_name"
       THEN nameText' = text /\ UNCHANGED cmdText
       ELSE cmdText' = text /\ UNCHANGED nameText
    /\ UNCHANGED << cfgVars, mainVars, guiOpen, cursorY, views, currentView, rpc,
                    childVars, sigVars, goVars, histVars >>
    /\ UNCHANGED otherVars

\* switchAddField: the view that becomes current when the handler runs on
\* the view named v
switchAddField(v) == IF v = "add_name" THEN "add_cmd" ELSE "add_name"

\* switchAddField: Enter or Tab on add_name, Tab on add_cmd
SwitchAddField ==
    /\ hostpc = "ui"
    /\ currentView \in { "add_name", "add_cmd" }
    /\ currentView' = switchAddField(currentView)
    /\ UNCHANGED << cfgVars, mainVars, guiOpen, cursorY, views, nameText, cmdText,
                    rpc, childVars, sigVars, goVars, histVars >>
    /\ UNCHANGED otherVars

\* v.Buffer(): every line of the view followed by "\n", as a sequence of
\* pieces of text; a view nothing was written to has no line
Buffer(line) == IF line = "" THEN <<>> ELSE << line, "\n" >>

\* trimViewText: the view's buffer without its trailing "\n" and "\r"
RECURSIVE StripNewlines(_)
StripNewlines(text) ==
    IF Len(text) > 0 /\ text[Len(text)] \in { "\n", "\r" }
    THEN StripNewlines(SubSeq(text, 1, Len(text) - 1))
    ELSE text

trimViewText(line) ==
    LET text == StripNewlines(Buffer(line))
    IN  IF text = <<>> THEN "" ELSE text[1]

\* writeConfig("config.json", apps)
writeConfig(file, apps, result) == WriteFile(file, MarshalConfig(apps), result)

\* cancelAddModal: the modal's views are deleted and the list view is the
\* current view again
cancelAddModal ==
    /\ views' = views \ ModalViews
    /\ currentView' = "list"
    /\ nameText' = ""
    /\ cmdText' = ""

\* SaveNewApp without the test for an empty name or command
SaveNewAppNoCheck(result) ==
    /\ hostpc = "ui"
    /\ currentView = "add_cmd"
    /\ LET name == trimViewText(nameText)
           cmd == trimViewText(cmdText)
       IN  /\ applications' = Append(applications, Application(name, cmd))
           /\ configFile' = writeConfig(configFile, applications', result)
           /\ cancelAddModal
    /\ UNCHANGED << mainVars, guiOpen, cursorY, rpc, childVars, sigVars, goVars,
                    histVars >>
    /\ UNCHANGED otherVars

\* saveNewApp: Enter on add_cmd
SaveNewApp(result) ==
    /\ hostpc = "ui"
    /\ currentView = "add_cmd"
    /\ LET name == trimViewText(nameText)
           cmd == trimViewText(cmdText)
       IN  IF name = "" \/ cmd = ""
           THEN UNCHANGED << cfgVars, modalVars >>
           ELSE /\ applications' = Append(applications, Application(name, cmd))
                /\ configFile' = writeConfig(configFile, applications', result)
                /\ cancelAddModal
    /\ UNCHANGED << mainVars, guiOpen, cursorY, rpc, childVars, sigVars, goVars,
                    histVars >>
    /\ UNCHANGED otherVars

\* quit: Ctrl+C in any view
Quit ==
    /\ hostpc = "ui"
    /\ MainLoopReturns("ErrQuit")
    /\ UNCHANGED << cfgVars, pendingApp, exitReason, app, guiVars, rpc, childVars,
                    sigVars, goVars, histVars >>
    /\ UNCHANGED otherVars

\* MainLoop ends with an error of its own (layout, the terminal)
MainLoopFails ==
    /\ hostpc = "ui"
    /\ MainLoopReturns("other")
    /\ UNCHANGED << cfgVars, pendingApp, exitReason, app, guiVars, rpc, childVars,
                    sigVars, goVars, histVars >>
    /\ UNCHANGED otherVars

\* CloseGui with run's "defer g.Close()" left out: run returns with the Gui
\* still open
CloseGuiLeftOpen ==
    /\ hostpc = "unwind"
    /\ hostpc' = "main"
    /\ UNCHANGED << cfgVars, pendingApp, exitReason, runErr, app, guiVars, rpc,
                    childVars, sigVars, goVars, histVars >>
    /\ UNCHANGED otherVars

\* run's deferred g.Close(): the Gui and its views are gone, the terminal is
\* restored, and run returns runErr to main
CloseGui ==
    /\ hostpc = "unwind"
    /\ guiOpen' = FALSE
    /\ cursorY' = 0
    /\ views' = {}
    /\ currentView' = "none"
    /\ nameText' = ""
    /\ cmdText' = ""
    /\ hostpc' = "main"
    /\ UNCHANGED << cfgVars, pendingApp, exitReason, runErr, app, rpc, childVars,
                    sigVars, goVars, histVars >>
    /\ UNCHANGED otherVars

\* runApplication(a) is called; cmd := exec.Command("sh", "-c", a.Command).
\* A forwarding goroutine of an earlier launch that has not ended yet can
\* only signal that launch's dead process and is not followed further.
EnterRunApplication(a) ==
    /\ app' = a
    /\ hostpc' = "runApplication"
    /\ rpc' = "start"
    /\ owed' = owed - 1
    /\ childState' = "none"
    /\ childCmd' = applications[a].Command
    /\ childStatus' = NoStatus
    /\ sigChan' = <<>>
    /\ sigClosed' = FALSE
    /\ fwdpc' = "none"
    /\ fwdSig' = NoSignal
    /\ UNCHANGED << notify, done, waitpc, err >>
    /\ UNCHANGED << requested, nRecv, dropped, startLogged, runLogged >>

\* MainDispatch without "pendingApp = nil"
MainDispatchKeepsPending ==
    /\ hostpc = "main"
    /\ IF runErr = "ErrRestart"
       THEN IF pendingApp # Nil
            THEN /\ EnterRunApplication(pendingApp)
                 /\ UNCHANGED << applications, pendingApp, exitReason, runErr,
                                 guiVars >>
            ELSE /\ hostpc' = "loop"
                 /\ UNCHANGED << applications, pendingApp, exitReason, runErr, app,
                                 guiVars, rpc, childVars, sigVars, goVars, histVars >>
       ELSE /\ Exit(IF runErr = "ErrQuit" THEN "quit" ELSE "uierror")
            /\ UNCHANGED << childVars, histVars >>
    /\ UNCHANGED configFile
    /\ UNCHANGED otherVars

\* main's loop body after run() returned an error
MainDispatch ==
    /\ hostpc = "main"
    /\ IF runErr = "ErrRestart"
       THEN IF pendingApp # Nil
            THEN /\ pendingApp' = Nil
                 /\ EnterRunApplication(pendingApp)
                 /\ UNCHANGED << applications, exitReason, runErr, guiVars >>
            ELSE /\ hostpc' = "loop"
                 /\ UNCHANGED << applications, pendingApp, exitReason, runErr, app,
                                 guiVars, rpc, childVars, sigVars, goVars, histVars >>
       ELSE /\ Exit(IF runErr = "ErrQuit" THEN "quit" ELSE "uierror")
            /\ UNCHANGED << childVars, histVars >>
    /\ UNCHANGED configFile
    /\ UNCHANGED otherVars

(***************************************************************************)
(* src/unnamed/part_002: runApplication                                    *)
(***************************************************************************)
\* cmd.Start() succeeds: the child runs on the host's stdin, stdout, stderr
CmdStart ==
    /\ hostpc = "runApplication" /\ rpc = "start"
    /\ childState' = "running"
    /\ rpc' = "notify"
    /\ UNCHANGED << cfgVars, mainVars, guiVars, childCmd, childStatus, sigVars,
                    goVars, histVars >>
    /\ UNCHANGED otherVars

\* CmdStartFails without the return after log.Println
CmdStartFailsGoesOn ==
    /\ hostpc = "runApplication" /\ rpc = "start"
    /\ startLogged' = startLogged + 1
    /\ rpc' = "notify"
    /\ UNCHANGED << cfgVars, mainVars, guiVars, childVars, sigVars, goVars,
                    requested, owed, nRecv, dropped, runLogged >>
    /\ UNCHANGED otherVars

\* cmd.Start() fails: the error is logged and runApplication returns
CmdStartFails ==
    /\ hostpc = "runApplication" /\ rpc = "start"
    /\ startLogged' = startLogged + 1
    /\ rpc' = "return"
    /\ UNCHANGED << cfgVars, mainVars, guiVars, childVars, sigVars, goVars,
                    requested, owed, nRecv, dropped, runLogged >>
    /\ UNCHANGED otherVars

\* sigChan := make(chan os.Signal, 1); signal.Notify(sigChan, SIGINT, SIGTERM)
Notify ==
    /\ hostpc = "runApplication" /\ rpc = "notify"
    /\ sigChan' = <<>>
    /\ sigClosed' = FALSE
    /\ notify' = TRUE
    /\ rpc' = "goWait"
    /\ UNCHANGED << cfgVars, mainVars, guiVars, childVars, goVars, histVars >>
    /\ UNCHANGED otherVars

\* done := make(chan error, 1); go func() { done <- cmd.Wait() }()
GoWait ==
    /\ hostpc = "runApplication" /\ rpc = "goWait"
    /\ done' = <<>>
    /\ waitpc' = "wait"
    /\ rpc' = "goForward"
    /\ UNCHANGED << cfgVars, mainVars, guiVars, childVars, sigVars, fwdpc, fwdSig,
                    err, histVars >>
    /\ UNCHANGED otherVars

\* go func() { for sig := range sigChan { ... } }()
GoForward ==
    /\ hostpc = "runApplication" /\ rpc = "goForward"
    /\ fwdpc' = "range"
    /\ rpc' = "recv"
    /\ UNCHANGED << cfgVars, mainVars, guiVars, childVars, sigVars, done, waitpc,
                    fwdSig, err, histVars >>
    /\ UNCHANGED otherVars

\* RecvDone as a receive that does not block (a select with a default case)
RecvDoneNoWait ==
    /\ hostpc = "runApplication" /\ rpc = "recv"
    /\ err' = IF Len(done) > 0 THEN Head(done) ELSE NilErr
    /\ done' = IF Len(done) > 0 THEN Tail(done) ELSE done
    /\ rpc' = "stop"
    /\ UNCHANGED << cfgVars, mainVars, guiVars, childVars, sigVars, waitpc, fwdpc,
                    fwdSig, histVars >>
    /\ UNCHANGED otherVars

\* err := <-done
RecvDone ==
    /\ hostpc = "runApplication" /\ rpc = "recv"
    /\ Len(done) > 0
    /\ err' = Head(done)
    /\ done' = Tail(done)
    /\ rpc' = "stop"
    /\ UNCHANGED << cfgVars, mainVars, guiVars, childVars, sigVars, waitpc, fwdpc,
                    fwdSig, histVars >>
    /\ UNCHANGED otherVars

\* SignalStop without the call of signal.Stop: notification stays installed
SignalStopKeepsNotify ==
    /\ hostpc = "runApplication" /\ rpc = "stop"
    /\ rpc' = "close"
    /\ UNCHANGED << cfgVars, mainVars, guiVars, childVars, notify, sigChan,
                    sigClosed, goVars, histVars >>
    /\ UNCHANGED otherVars

\* signal.Stop(sigChan)
SignalStop ==
    /\ hostpc = "runApplication" /\ rpc = "stop"
    /\ notify' = FALSE
    /\ rpc' = "close"
    /\ UNCHANGED << cfgVars, mainVars, guiVars, childVars, sigChan, sigClosed,
                    goVars, histVars >>
    /\ UNCHANGED otherVars

\* close(sigChan)
CloseSigChan ==
    /\ hostpc = "runApplication" /\ rpc = "close"
    /\ sigClosed' = TRUE
    /\ rpc' = "classify"
    /\ UNCHANGED << cfgVars, mainVars, guiVars, childVars, notify, sigChan,
                    goVars, histVars >>
    /\ UNCHANGED otherVars

\* status.Signal(): the terminating signal, "none" for Signal() = -1
StatusSignal(ws) == ws.signal

\* LogsFailure without the test for SIGINT and SIGTERM: every error is logged
LogsFailureAnyError(e) == e.type # "nil"

\* lines 295-307: whether runApplication logs "Error running command:" for e
LogsFailure(e) ==
    IF e.type # "nil"
    THEN IF /\ e.type = "ExitError"
            /\ \/ StatusSignal(e.status) = "SIGINT"
               \/ StatusSignal(e.status) = "SIGTERM"
         THEN FALSE
         ELSE TRUE
    ELSE FALSE

\* Classify with log.Panicln where the code has log.Println
ClassifyFatal ==
    /\ hostpc = "runApplication" /\ rpc = "classify"
    /\ IF LogsFailure(err)
       THEN /\ runLogged' = runLogged + 1
            /\ Exit("uierror")
            /\ UNCHANGED << configFile, childVars, requested, owed, nRecv, dropped,
                            startLogged >>
       ELSE /\ rpc' = "return"
            /\ UNCHANGED << cfgVars, mainVars, guiVars, childVars, sigVars, goVars,
                            histVars >>
    /\ UNCHANGED otherVars

\* the if err != nil block, up to the function's end
Classify ==
    /\ hostpc = "runApplication" /\ rpc = "classify"
    /\ runLogged' = IF LogsFailure(err) THEN runLogged + 1 ELSE runLogged
    /\ rpc' = "return"
    /\ UNCHANGED << cfgVars, mainVars, guiVars, childVars, sigVars, goVars,
                    requested, owed, nRecv, dropped, startLogged >>
    /\ UNCHANGED otherVars

\* runApplication returns and main's loop continues with run(): cmd, done,
\* err and app go out of scope, the child (if one was started) has been
\* waited for
Return ==
    /\ hostpc = "runApplication" /\ rpc = "return"
    /\ hostpc' = "loop"
    /\ rpc' = "idle"
    /\ app' = Nil
    /\ childState' = "none"
    /\ childCmd' = ""
    /\ childStatus' = NoStatus
    /\ done' = <<>>
    /\ waitpc' = "none"
    /\ err' = NilErr
    /\ UNCHANGED << cfgVars, pendingApp, exitReason, runErr, guiVars, sigVars,
                    fwdpc, fwdSig, histVars >>
    /\ UNCHANGED otherVars

(***************************************************************************)
(* The child, the two goroutines and the signals the host receives         *)
(***************************************************************************)
\* the host process is alive: its goroutines run and signals reach it
HostAlive == hostpc # "terminated"

\* the child process ends with wait status ws (on its own, or by a signal)
ChildExits(ws) ==
    /\ childState = "running"
    /\ childState' = "exited"
    /\ childStatus' = ws
    /\ UNCHANGED << cfgVars, mainVars, guiVars, rpc, childCmd, sigVars, goVars,
                    histVars >>
    /\ UNCHANGED otherVars

\* what cmd.Wait() returns for a child that ended with ws
WaitResult(ws) ==
    IF ws.signal = "none" /\ ws.exit = 0 THEN NilErr ELSE ExitError(ws)

\* goroutine 1: cmd.Wait() returns e once the child has ended; done <- e
WaitReturns(e) ==
    /\ HostAlive
    /\ waitpc = "wait"
    /\ childState = "exited"
    /\ Len(done) < 1
    /\ done' = Append(done, e)
    /\ waitpc' = "end"
    /\ UNCHANGED << cfgVars, mainVars, guiVars, rpc, childVars, sigVars, fwdpc,
                    fwdSig, err, histVars >>
    /\ UNCHANGED otherVars

\* goroutine 2: the range receives the next signal from sigChan
ForwardRecv ==
    /\ HostAlive
    /\ fwdpc = "range"
    /\ Len(sigChan) > 0
    /\ fwdSig' = Head(sigChan)
    /\ sigChan' = Tail(sigChan)
    /\ fwdpc' = "signal"
    /\ UNCHANGED << cfgVars, mainVars, guiVars, rpc, childVars, notify, sigClosed,
                    done, waitpc, err, histVars >>
    /\ UNCHANGED otherVars

\* goroutine 2: cmd.Process.Signal(sig); cmd.Process is non-nil after Start
ForwardSignal ==
    /\ HostAlive
    /\ fwdpc = "signal"
    /\ fwdpc' = "range"
    /\ fwdSig' = NoSignal
    /\ UNCHANGED << cfgVars, mainVars, guiVars, rpc, childVars, sigVars, done,
                    waitpc, err, histVars >>
    /\ UNCHANGED otherVars

\* goroutine 2: sigChan is closed and drained, the range ends
ForwardEnd ==
    /\ HostAlive
    /\ fwdpc = "range"
    /\ Len(sigChan) = 0
    /\ sigClosed
    /\ fwdpc' = "end"
    /\ UNCHANGED << cfgVars, mainVars, guiVars, rpc, childVars, sigVars, done,
                    waitpc, fwdSig, err, histVars >>
    /\ UNCHANGED otherVars

\* capacity of sigChan: make(chan os.Signal, 1)
SigChanCap == 1

\* os/signal's delivery to a Notify channel is a send that never blocks: a
\* signal that finds the buffer full is discarded
Delivered(ch) == Len(ch) < SigChanCap

\* the host receives SIGINT or SIGTERM.  With the Notify channel installed
\* the Go runtime hands it to the channel; otherwise the signal's default
\* action ends the host process.
SignalArrives(s) ==
    /\ HostAlive
    /\ IF notify
       THEN /\ nRecv < MaxSignals
            /\ nRecv' = nRecv + 1
            /\ sigChan' = IF Delivered(sigChan) THEN Append(sigChan, s) ELSE sigChan
            /\ dropped' = IF ~Delivered(sigChan) /\ childState = "running"
                          THEN dropped + 1 ELSE dropped
            /\ UNCHANGED << applications, mainVars, guiVars, rpc, notify, sigClosed,
                            goVars, requested, owed, startLogged, runLogged >>
       ELSE /\ Exit("signal")
            /\ UNCHANGED histVars
    /\ UNCHANGED << configFile, childVars >>
    /\ UNCHANGED otherVars

Next ==
    \/ Startup
    \/ RunUI
    \/ NewGuiFails
    \/ CursorDown
    \/ CursorUp
    \/ RunApp
    \/ RefreshDashboard
    \/ OpenAddModal
    \/ \E text \in TypedTexts : EditText(text)
    \/ SwitchAddField
    \/ \E result \in WriteResults : SaveNewApp(result)
    \/ Quit
    \/ MainLoopFails
    \/ CloseGui
    \/ MainDispatch
    \/ CmdStart
    \/ CmdStartFails
    \/ Notify
    \/ GoWait
    \/ GoForward
    \/ RecvDone
    \/ SignalStop
    \/ CloseSigChan
    \/ Classify
    \/ Return
    \/ \E ws \in WaitStatuses : ChildExits(ws)
    \/ WaitReturns(WaitResult(childStatus))
    \/ WaitReturns(OtherErr)
    \/ ForwardRecv
    \/ ForwardSignal
    \/ ForwardEnd
    \/ \E s \in Signals : SignalArrives(s)

Spec == Init /\ [][Next]_vars

\* The Go scheduler runs every goroutine that can take a step: the main
\* goroutine inside runApplication after cmd.Start, the goroutine that sends
\* cmd.Wait()'s result, and the goroutine that ranges over sigChan.
RunApplicationStep ==
    Notify \/ GoWait \/ GoForward \/ RecvDone \/ SignalStop \/ CloseSigChan

WaitStep == WaitReturns(WaitResult(childStatus)) \/ WaitReturns(OtherErr)

ForwardStep == ForwardRecv \/ ForwardSignal \/ ForwardEnd

SpecFair ==
    /\ Spec
    /\ WF_vars(RunApplicationStep)
    /\ WF_vars(WaitStep)
    /\ WF_vars(ForwardStep)

(***************************************************************************)
(* src/unnamed/part_003: the earlier launcher.  runApp runs the command    *)
(* itself, inside the key handler; main only restarts the UI loop.  The    *)
(* package state, main's start, run and the cursor handlers are the same   *)
(* code as in part_002 and use the same variables; pendingApp, signal      *)
(* notification and the goroutines do not exist in this program.           *)
(***************************************************************************)
\* main, up to the for loop
Startup3 ==
    /\ hostpc = "start"
    /\ \E result \in WriteResults :
           configFile' = createDefaultConfig(configFile, result)
    /\ IF configFile'.kind = "ok"
       THEN /\ applications' = UnmarshalConfig(configFile'.doc)
            /\ hostpc' = "loop"
            /\ UNCHANGED << pendingApp, exitReason, runErr, app, guiVars, rpc,
                            sigVars, goVars >>
       ELSE Exit("config")
    /\ UNCHANGED << childVars, histVars, otherVars >>

\* run(): NewGui succeeds, MainLoop's first layout creates the list view
RunUI3 ==
    /\ hostpc = "loop"
    /\ guiOpen' = TRUE
    /\ cursorY' = FirstRow
    /\ views' = { "list" }
    /\ currentView' = "list"
    /\ UNCHANGED << nameText, cmdText >>
    /\ hostpc' = "ui"
    /\ LaunchOver
    /\ UNCHANGED << cfgVars, pendingApp, exitReason, runErr, app, rpc, childVars,
                    sigVars, goVars, otherVars >>

\* run(): NewGui fails
NewGuiFails3 ==
    /\ hostpc = "loop"
    /\ runErr' = "other"
    /\ hostpc' = "main"
    /\ LaunchOver
    /\ UNCHANGED << cfgVars, pendingApp, exitReason, app, guiVars, rpc, childVars,
                    sigVars, goVars, otherVars >>

\* cursorDown
CursorDown3 ==
    /\ hostpc = "ui"
    /\ cursorY' = IF cursorY < Len(applications) + 1 THEN cursorY + 1 ELSE cursorY
    /\ UNCHANGED << cfgVars, mainVars, guiOpen, modalVars, rpc, childVars, sigVars, goVars,
                    histVars, otherVars >>

\* cursorUp
CursorUp3 ==
    /\ hostpc = "ui"
    /\ cursorY' = IF cursorY > 2 THEN cursorY - 1 ELSE cursorY
    /\ UNCHANGED << cfgVars, mainVars, guiOpen, modalVars, rpc, childVars, sigVars, goVars,
                    histVars, otherVars >>

\* runApp, Enter on the list view: with an entry under the cursor, cmd.Run()
\* starts the command and the handler blocks in it until the child ends
RunApp3 ==
    /\ hostpc = "ui"
    /\ IF getAppFromCursor(cursorY) = Nil
       THEN UNCHANGED << hostpc, app, childVars, requested >>
       ELSE /\ app' = getAppFromCursor(cursorY)
            /\ requested' = getAppFromCursor(cursorY)
            /\ childCmd' = applications[getAppFromCursor(cursorY)].Command
            /\ childState' = "running"
            /\ childStatus' = NoStatus
            /\ hostpc' = "runApp"
    /\ UNCHANGED << cfgVars, pendingApp, exitReason, runErr, guiVars, rpc, sigVars,
                    goVars, owed, nRecv, dropped, startLogged, runLogged,
                    otherVars >>

\* runApp: cmd.Run() fails to start the command; the error is logged and the
\* handler returns ErrRestart
RunApp3StartFails ==
    /\ hostpc = "ui"
    /\ getAppFromCursor(cursorY) # Nil
    /\ requested' = getAppFromCursor(cursorY)
    /\ runLogged' = runLogged + 1
    /\ MainLoopReturns("ErrRestart")
    /\ UNCHANGED << cfgVars, pendingApp, exitReason, app, guiVars, rpc, childVars,
                    sigVars, goVars, owed, nRecv, dropped, startLogged,
                    otherVars >>

\* runApp: cmd.Run() returns e after the child ended; a non-nil e is logged
\* and the handler returns ErrRestart
RunReturns3(e) ==
    /\ hostpc = "runApp"
    /\ childState = "exited"
    /\ runLogged' = IF e.type # "nil" THEN runLogged + 1 ELSE runLogged
    /\ app' = Nil
    /\ childState' = "none"
    /\ childCmd' = ""
    /\ childStatus' = NoStatus
    /\ MainLoopReturns("ErrRestart")
    /\ UNCHANGED << cfgVars, pendingApp, exitReason, guiVars, rpc, sigVars, goVars,
                    requested, owed, nRecv, dropped, startLogged, otherVars >>

\* quit: Ctrl+C
Quit3 ==
    /\ hostpc = "ui"
    /\ MainLoopReturns("ErrQuit")
    /\ UNCHANGED << cfgVars, pendingApp, exitReason, app, guiVars, rpc, childVars,
                    sigVars, goVars, histVars, otherVars >>

\* MainLoop ends with an error of its own
MainLoopFails3 ==
    /\ hostpc = "ui"
    /\ MainLoopReturns("other")
    /\ UNCHANGED << cfgVars, pendingApp, exitReason, app, guiVars, rpc, childVars,
                    sigVars, goVars, histVars, otherVars >>

\* run's deferred g.Close(), and run returns runErr to main
CloseGui3 ==
    /\ hostpc = "unwind"
    /\ guiOpen' = FALSE
    /\ cursorY' = 0
    /\ views' = {}
    /\ currentView' = "none"
    /\ nameText' = ""
    /\ cmdText' = ""
    /\ hostpc' = "main"
    /\ UNCHANGED << cfgVars, pendingApp, exitReason, runErr, app, rpc, childVars,
                    sigVars, goVars, histVars, otherVars >>

\* main's loop body after run() returned an error
MainDispatch3 ==
    /\ hostpc = "main"
    /\ IF runErr = "ErrRestart"
       THEN /\ hostpc' = "loop"
            /\ UNCHANGED << applications, pendingApp, exitReason, runErr, app,
                            guiVars, rpc, sigVars, goVars >>
       ELSE Exit(IF runErr = "ErrQuit" THEN "quit" ELSE "uierror")
    /\ UNCHANGED << configFile, childVars, histVars, otherVars >>

Next3 ==
    \/ Startup3
    \/ RunUI3
    \/ NewGuiFails3
    \/ CursorDown3
    \/ CursorUp3
    \/ RunApp3
    \/ RunApp3StartFails
    \/ \E ws \in WaitStatuses : ChildExits(ws)
    \/ RunReturns3(WaitResult(childStatus))
    \/ RunReturns3(OtherErr)
    \/ Quit3
    \/ MainLoopFails3
    \/ CloseGui3
    \/ MainDispatch3

Spec3 == Init /\ [][Next3]_vars

(***************************************************************************)
(* The specification of src/main.go: key and resize messages from          *)
(* initialModel().  src/main.go is another program than the launcher: the  *)
(* launcher's variables keep the values of a launcher that was not started.*)
(***************************************************************************)
NoLauncher ==
    /\ InitLauncher
    /\ configFile.kind = "absent"

InitM == initialModel /\ NoLauncher /\ NoCalls /\ NoTwoPane

NextM ==
    \/ \E key \in Keys : UpdateKey(key)
    \/ \E size \in WindowSizes : UpdateWindowSize(size)

SpecM == InitM /\ [][NextM]_vars

(***************************************************************************)
(* SpecPanels: the methods of Model applied to bounded inputs.  Either a   *)
(* Model literal whose panels hold a prefix of initialModel's entries, the *)
(* empty panel included, with zero cursors and an empty right pane, driven *)
(* by Update; or halfName called on its own with any title of Titles.      *)
(***************************************************************************)
InitPanels ==
    /\ NoLauncher
    /\ NoTwoPane
    /\ launchCall = NoLaunchCall
    /\ \/ /\ focus = PanelTUI
          /\ width = 0
          /\ height = 0
          /\ nTop \in 0..Len(InitialTopItems)
          /\ nMid \in 0..Len(InitialMidItems)
          /\ nBottom \in 0..Len(InitialBottomItems)
          /\ topCursor = 0
          /\ midCursor = 0
          /\ bottomCursor = 0
          /\ rightTitle = <<>>
          /\ rightBody = <<>>
          /\ teaState = "running"
          /\ halfNameCall = NoHalfNameCall
       \/ /\ NoModel
          /\ halfNameCall \in HalfNameCalls

NextPanels ==
    \/ NextM
    \/ CallHalfName

SpecPanels == InitPanels /\ [][NextPanels]_vars

(***************************************************************************)
(* SpecLaunchInDir: launchInDir called once in any environment of          *)
(* Environments on a path of any kind of DirKinds.                         *)
(***************************************************************************)
InitLaunchInDir ==
    /\ NoLauncher
    /\ NoTwoPane
    /\ NoModel
    /\ halfNameCall = NoHalfNameCall
    /\ launchCall \in LaunchCalls

NextLaunchInDir == \E run \in RunResults : launchInDir(run)

SpecLaunchInDir == InitLaunchInDir /\ [][NextLaunchInDir]_vars

(***************************************************************************)
(* SpecTwoPane: the two-pane prototype (src/unnamed/part_004) from its     *)
(* initialModel(), driven by Update.                                       *)
(***************************************************************************)
InitTwoPane ==
    /\ NoLauncher
    /\ NoCalls
    /\ initialModelTwoPane
    /\ focus = PanelTUI
    /\ nTop = 0 /\ nMid = 0 /\ nBottom = 0
    /\ topCursor = 0 /\ midCursor = 0 /\ bottomCursor = 0
    /\ rightTitle = <<>> /\ rightBody = <<>>

NextTwoPane ==
    \/ \E key \in Keys : TwoPaneUpdateKey(key)
    \/ \E size \in WindowSizes : TwoPaneUpdateWindowSize(size)

SpecTwoPane == InitTwoPane /\ [][NextTwoPane]_vars

(***************************************************************************)
(* The claims                                                              *)
(***************************************************************************)

\* C1: in the restart-the-loop launcher a child command is started only after
\* the UI loop has returned and the Gui has been closed, a new Gui is created
\* only after runApplication has returned, and at no instant are an open Gui
\* and a running child both present.
C1_GuiClosedBeforeChild ==
    /\ [](~(guiOpen /\ childState = "running"))
    /\ [][childState # "running" /\ childState' = "running"
            => ~guiOpen /\ ~guiOpen' /\ hostpc = "runApplication"]_vars
    /\ [][~guiOpen /\ guiOpen'
            => hostpc = "loop" /\ rpc = "idle" /\ childState = "none"]_vars

\* a child runs, started by runApplication after the Gui was closed
C1_Witness ==
    /\ hostpc = "runApplication"
    /\ childState = "running"
    /\ ~guiOpen
    /\ requested # Nil

\* C2: in the earlier launcher (part_003) the child command started by runApp
\* never runs while the Gui created by run() is still open.
C2_ChildNotUnderOpenGui ==
    ~(guiOpen /\ childState = "running")

\* C3: the host process never exits while a child it started is still alive,
\* whenever a SIGINT or SIGTERM arrives during runApplication.
C3_HostNeverExitsBeforeChild ==
    ~(hostpc = "terminated" /\ childState = "running")

\* C4: every SIGINT or SIGTERM the host receives while the child is running
\* is forwarded to the child; none is lost, also when several arrive before
\* the forwarding goroutine has drained the 1-slot channel.
C4_NoSignalLost ==
    dropped = 0

\* C5: when cmd.Start succeeds, runApplication does not get past its wait,
\* and so does not return and the UI loop is not re-entered, until the child
\* has terminated; from signal.Stop on, and after the return, signals the
\* host receives are not handed to the channel any more.
C5_ReturnsOnlyAfterChildExit ==
    /\ hostpc = "runApplication" /\ rpc \in { "stop", "close", "classify" }
          => childState = "exited"
    /\ rpc = "return" /\ startLogged = 0 => childState = "exited"
    /\ guiOpen => childState = "none"
    /\ rpc \in { "close", "classify", "return" } => ~notify
    /\ hostpc \in { "loop", "ui", "unwind", "main" } => ~notify

\* runApplication is about to return after a child that received signals
C5_Witness ==
    /\ rpc = "return"
    /\ childState = "exited"
    /\ nRecv > 0
    /\ ~notify

\* C6: exit classification.  When cmd.Wait reports a child ended by SIGINT
\* or SIGTERM, or an exit status of 0, nothing is logged; for every other
\* result (non-zero exit status, another signal, another wait error) exactly
\* one failure is logged; and what cmd.Wait reports as exit status or signal
\* is how the child terminated.
C6_ExitClassification ==
    rpc = "return" /\ startLogged = 0 =>
        /\ err.type = "nil" => childStatus = [signal |-> "none", exit |-> 0]
        /\ err.type = "ExitError" => err.status = childStatus
        /\ runLogged =
              IF err.type = "nil" THEN 0
              ELSE IF err.type = "ExitError" /\ err.status.signal \in Signals THEN 0
              ELSE 1

\* a child that exited with a non-zero status has been logged once
C6_Witness ==
    /\ rpc = "return"
    /\ childStatus = [signal |-> "none", exit |-> 1]
    /\ err.type = "ExitError"
    /\ runLogged = 1

\* C7 as stated: during a launch (from Enter until run() is called again) the
\* host never terminates, whatever happens to the child.
C7_LaunchNeverEndsHost ==
    [][requested # Nil /\ hostpc # "terminated" => hostpc' # "terminated"]_vars

\* C7 as amended: runApplication is left only by returning to main's loop,
\* which calls run() next, or by a SIGINT/SIGTERM that reaches the host while
\* no signal channel is installed; and the host terminates only through the
\* quit key, a non-restart error of the UI loop, a configuration error at
\* startup, or such a signal.
C7_ChildOutcomesContained ==
    /\ [][hostpc = "runApplication" /\ hostpc' # "runApplication"
            => \/ hostpc' = "loop"
               \/ hostpc' = "terminated" /\ exitReason' = "signal" /\ ~notify]_vars
    /\ [][hostpc = "loop" /\ hostpc' # "loop"
            => \/ hostpc' = "ui" /\ guiOpen'
               \/ hostpc' = "main" /\ runErr' = "other"
               \/ hostpc' = "terminated" /\ exitReason' = "signal" /\ ~notify]_vars
    /\ [][hostpc # "terminated" /\ hostpc' = "terminated"
            => \/ exitReason' = "signal" /\ ~notify
               \/ exitReason' = "quit" /\ hostpc = "main" /\ runErr = "ErrQuit"
               \/ exitReason' = "uierror" /\ hostpc = "main" /\ runErr = "other"
               \/ exitReason' = "config" /\ hostpc = "start"]_vars

\* a launch whose child failed is over and main's loop is about to call run()
C7_Witness ==
    /\ hostpc = "loop"
    /\ requested # Nil
    /\ runLogged = 1

\* C8: a launch does not reset the selection: when the UI resumes after a
\* launch from entry i, the list cursor is on entry i again.
C8_CursorKeptAcrossLaunch ==
    [][hostpc = "loop" /\ hostpc' = "ui" /\ requested # Nil
         => getAppFromCursor(cursorY') = requested]_vars

\* C9, the part that holds: pendingApp is non-nil only between runApp
\* returning ErrRestart and main consuming it, and is nil whenever the UI is
\* interactive; main clears it before runApplication runs; while the host
\* lives, requests made and calls of runApplication differ by one exactly
\* while a request is pending, and a call is for the entry Enter was pressed
\* on, with that entry's command.
PendingLaunchDiscipline ==
    /\ pendingApp # Nil
          => hostpc \in { "unwind", "main" } /\ runErr = "ErrRestart"
             /\ pendingApp = requested
    /\ hostpc = "ui" => pendingApp = Nil
    /\ hostpc # "terminated" => owed = IF pendingApp # Nil THEN 1 ELSE 0
    /\ hostpc = "runApplication"
          => pendingApp = Nil /\ app # Nil /\ app = requested
             /\ childCmd = applications[app].Command
    /\ childState # "none" /\ hostpc # "terminated" => hostpc = "runApplication"

\* C9 as amended: the discipline above; a child is executed at most once per
\* request, and exactly once unless cmd.Start fails.
C9_PendingLaunchConsumedOnce ==
    /\ PendingLaunchDiscipline
    /\ rpc = "return" => (childState = "exited" <=> startLogged = 0)
    /\ rpc = "return" => startLogged + (IF childState = "exited" THEN 1 ELSE 0) = 1

\* the second entry was requested and its command is running
C9_Witness ==
    /\ hostpc = "runApplication"
    /\ childState = "running"
    /\ requested = 2
    /\ childCmd = applications[2].Command
    /\ pendingApp = Nil

\* C9 as stated: each Enter on a valid application causes exactly one child
\* execution, so a child has run whenever runApplication returns.
C9_ExactlyOneChildPerEnter ==
    /\ PendingLaunchDiscipline
    /\ rpc = "return" => childState = "exited"

\* C10: in the three-panel model every panel's cursor c satisfies
\* 0 <= c < len(entries) when the panel is non-empty and c = 0 when it is
\* empty, and focus is one of the three panels, after any sequence of key
\* and resize messages from initialModel.
CursorInBounds(c, items) ==
    IF Len(items) > 0 THEN 0 <= c /\ c < Len(items) ELSE c = 0

C10_CursorsInBounds ==
    /\ CursorInBounds(topCursor, topItems)
    /\ CursorInBounds(midCursor, midItems)
    /\ CursorInBounds(bottomCursor, bottomItems)
    /\ focus \in { PanelTUI, PanelDirs, PanelShortcuts }

\* every cursor has been moved to its panel's last entry
C10_Witness ==
    /\ topCursor = Len(topItems) - 1
    /\ midCursor = Len(midItems) - 1
    /\ bottomCursor = Len(bottomItems) - 1
    /\ focus = PanelShortcuts
    /\ Len(rightTitle) > 0

\* the cursor of panel p
CursorOf(p) ==
    CASE p = PanelTUI -> topCursor
      [] p = PanelDirs -> midCursor
      [] p = PanelShortcuts -> bottomCursor

Panels == { PanelTUI, PanelDirs, PanelShortcuts }

\* C11: cursor moves saturate and never wrap.  A step of navigateDown adds
\* exactly 1 to the focused panel's cursor when it is below len(entries)-1
\* and leaves it unchanged otherwise (so len(entries) steps from 0 end at
\* len(entries)-1); a step of navigateUp subtracts 1 above 0 and leaves 0
\* at 0; both leave the other panels' cursors and the focus alone, and both
\* change nothing on an empty panel.
C11_CursorMovesSaturate ==
    [][ /\ (\E key \in { "down", "j" } : UpdateKey(key)) =>
               /\ CursorOf(focus)' =
                      IF CursorOf(focus) < Len(FocusedItems) - 1
                      THEN CursorOf(focus) + 1 ELSE CursorOf(focus)
               /\ \A p \in Panels \ { focus } : CursorOf(p)' = CursorOf(p)
               /\ focus' = focus
               /\ Len(FocusedItems) = 0 => UNCHANGED cursorVars
        /\ (\E key \in { "up", "k" } : UpdateKey(key)) =>
               /\ CursorOf(focus)' =
                      IF CursorOf(focus) > 0
                      THEN CursorOf(focus) - 1 ELSE CursorOf(focus)
               /\ \A p \in Panels \ { focus } : CursorOf(p)' = CursorOf(p)
               /\ focus' = focus
               /\ Len(FocusedItems) = 0 => UNCHANGED cursorVars
      ]_vars

\* a full panel's cursor walked down to its last entry and another one walked
\* down and back up to 0, next to an empty panel
C11_Witness ==
    /\ nTop = Len(InitialTopItems)
    /\ topCursor = nTop - 1
    /\ nMid = 0
    /\ midCursor = 0
    /\ nBottom = Len(InitialBottomItems)
    /\ bottomCursor = 0
    /\ rightTitle = PreviewTitlePrefix \o halfName(InitialBottom2Title)
    /\ focus = PanelDirs

\* C12: cycleFocus goes PanelTUI -> PanelDirs -> PanelShortcuts -> PanelTUI,
\* so three steps return to the starting panel and one or two steps never
\* do, and it leaves the three cursors unchanged.
C12_FocusCycles ==
    /\ [](focus \in Panels)
    /\ [][ UpdateKey("tab") =>
               /\ focus = PanelTUI => focus' = PanelDirs
               /\ focus = PanelDirs => focus' = PanelShortcuts
               /\ focus = PanelShortcuts => focus' = PanelTUI
               /\ focus' # focus
               /\ UNCHANGED cursorVars
      ]_vars

\* focus is back on the first panel after the cursors of the other two were
\* moved: the cycle was completed and the cursors were kept
C12_Witness ==
    /\ focus = PanelTUI
    /\ midCursor = 2
    /\ bottomCursor = 1
    /\ topCursor = 3

\* a step of Update handling the activation key
Activation == \E key \in { "enter", " " } : UpdateKey(key)

\* C13: activating an entry of the top panel sets rightTitle to the entry's
\* Title and rightBody to the entry's Description; on a fresh model that is
\* "TUI Apps: Clock" and "A terminal clock widget".
C13_TopActivationShowsEntry ==
    [][ Activation /\ focus = PanelTUI /\ topCursor < Len(topItems) =>
            /\ rightTitle' = topItems[topCursor + 1].Title
            /\ rightBody' = topItems[topCursor + 1].Description
      ]_vars

\* "Directory: "
DirectoryPrefix ==
    << "D", "i", "r", "e", "c", "t", "o", "r", "y", ":", " " >>

\* "Path: "
PathPrefix == << "P", "a", "t", "h", ":", " " >>

\* C14: activating an entry of the directories panel sets rightTitle to
\* "Directory: " followed by the entry's Title and rightBody to "Path: "
\* followed by the entry's Path, whichever entry the cursor is on.
C14_DirActivationShowsPath ==
    [][ Activation /\ focus = PanelDirs /\ midCursor < Len(midItems) =>
            /\ rightTitle' = DirectoryPrefix \o midItems[midCursor + 1].Title
            /\ rightBody' = PathPrefix \o midItems[midCursor + 1].Path
      ]_vars

\* str has no blank at either end
Trimmed(str) ==
    str = <<>> \/ (~IsSpace(str[1]) /\ ~IsSpace(str[Len(str)]))

\* str is inner with blanks only before and after it
Padded(inner, str) ==
    \E a \in 0..Len(str) : \E b \in a..Len(str) :
        /\ SubSeq(str, a + 1, b) = inner
        /\ \A i \in (1..a) \cup ((b + 1)..Len(str)) : IsSpace(str[i])

\* short is the short name of title: the trimmed text after the first ':',
\* or the whole trimmed title when it holds no ':'
IsShortNameOf(short, title) ==
    /\ Trimmed(short)
    /\ IF \E i \in 1..Len(title) : title[i] = ":"
       THEN \E i \in 1..Len(title) :
                /\ title[i] = ":"
                /\ \A j \in 1..(i - 1) : title[j] # ":"
                /\ Padded(short, SubSeq(title, i + 1, Len(title)))
       ELSE Padded(short, title)

CalendarName == << "C", "a", "l", "e", "n", "d", "a", "r" >>

C16_EmptyActivationNoOp ==
    [][ Activation /\ Len(FocusedItems) = 0 => UNCHANGED vars ]_vars

\* an empty panel has the focus while the right pane shows the preview of an
\* entry of another panel
C16_Witness ==
    /\ nMid = 0
    /\ focus = PanelDirs
    /\ nTop > 0
    /\ rightTitle = PreviewTitlePrefix \o halfName(InitialTop0Title)
    /\ Len(rightBody) > 0

\* C19: launchInDir runs a shell if and only if GO_DASH_LAUNCH_IN_DIR is set
\* to a non-empty value, blank ones included, and the directory exists; when
\* the variable is unset or empty it runs nothing, prints the dry-run message
\* and returns nil.
C19_LaunchGate ==
    launchCall.done =>
        LET nonEmpty == launchCall.env.set /\ launchCall.env.value # <<>>
        IN  /\ launchCall.spawned <=> (nonEmpty /\ launchCall.dir = "dir")
            /\ ~nonEmpty => /\ ~launchCall.spawned
                            /\ launchCall.printed
                            /\ launchCall.ret = "nil"

\* a step of saveNewApp that read a non-empty name and a non-empty command
SavesEntry ==
    /\ \E result \in WriteResults : SaveNewApp(result)
    /\ trimViewText(nameText) # ""
    /\ trimViewText(cmdText) # ""

\* C17: after saveNewApp with a non-empty name and command the in-memory
\* list is the previous list with the new entry appended at its end,
\* config.json holds the whole list, and loading config.json yields exactly
\* the in-memory list; this holds for every add, however many came before.
C17_AppendRoundTrip ==
    [][ SavesEntry =>
            /\ applications' =
                   applications \o << [Name |-> nameText, Command |-> cmdText] >>
            /\ configFile'.kind = "ok"
            /\ UnmarshalConfig(configFile'.doc) = applications'
      ]_vars

\* the three entries of the default configuration, in order
ThreeDefaults ==
    << [Name |-> "LazyGit", Command |-> "lazygit"],
       [Name |-> "LazyDocker", Command |-> "lazydocker"],
       [Name |-> "LazySSH", Command |-> "lazyssh"] >>

\* main ran from its first line to the for loop or to its panic
Started == hostpc = "start" /\ hostpc' # "start" /\ exitReason' # "signal"

\* C18 as stated: when config.json is absent the default configuration is
\* created and persisted and the UI starts with its three entries; when it
\* exists it is not overwritten; when it cannot be read or parsed the
\* program aborts before the UI loop, with no Gui and no child.
C18_DefaultAlwaysCreated ==
    [][ Started =>
            /\ configFile.kind = "absent" =>
                   /\ configFile' = [kind |-> "ok", doc |-> MarshalConfig(ThreeDefaults)]
                   /\ applications' = ThreeDefaults
                   /\ hostpc' = "loop"
            /\ configFile.kind # "absent" => configFile' = configFile
            /\ configFile.kind = "bad" =>
                   /\ hostpc' = "terminated"
                   /\ ~guiOpen' /\ childState' = "none"
      ]_vars

\* C18: startup configuration.  When config.json is absent the default
\* configuration of exactly three entries (LazyGit, LazyDocker, LazySSH) is
\* written; if the write succeeds the UI loop starts with those three, and if
\* it fails the program aborts before the UI loop.  When config.json exists
\* it is left as it is, and loaded.  When it cannot be read or parsed the
\* program aborts.  An abort for the configuration happens only at startup:
\* no Gui was created and no child was launched.
C18_StartupConfiguration ==
    /\ [][ Started =>
               /\ configFile.kind = "absent" =>
                      \/ /\ configFile' =
                                [kind |-> "ok", doc |-> MarshalConfig(ThreeDefaults)]
                         /\ applications' = ThreeDefaults
                         /\ hostpc' = "loop"
                      \/ /\ configFile'.kind # "ok"
                         /\ hostpc' = "terminated"
                         /\ exitReason' = "config"
               /\ configFile.kind # "absent" => configFile' = configFile
               /\ configFile.kind = "ok" =>
                      /\ applications' = UnmarshalConfig(configFile.doc)
                      /\ hostpc' = "loop"
               /\ configFile.kind = "bad" =>
                      /\ hostpc' = "terminated"
                      /\ exitReason' = "config"
         ]_vars
    /\ [][ exitReason # "config" /\ exitReason' = "config" =>
               hostpc = "start" /\ ~guiOpen /\ childState = "none" ]_vars
    /\ [](exitReason = "config" =>
              ~guiOpen /\ childState = "none" /\ requested = Nil)

\* config.json was absent, the default was written and the UI shows its three
\* entries
C18_Witness ==
    /\ hostpc = "ui"
    /\ applications = ThreeDefaults
    /\ configFile = [kind |-> "ok", doc |-> MarshalConfig(ThreeDefaults)]
    /\ cursorY = FirstRow

\* C20: in the launcher, while the Gui is open the selected index
\* cursorY - 2 satisfies 0 <= index < len(applications) whenever the list
\* is non-empty, after any cursorUp, cursorDown and adds; with an empty list
\* the cursor stays on row 2, getAppFromCursor returns nil, and no step sets
\* pendingApp or makes MainLoop return ErrRestart.
C20_ListCursorInBounds ==
    /\ [](guiOpen =>
              IF Len(applications) > 0
              THEN 0 <= cursorY - 2 /\ cursorY - 2 < Len(applications)
              ELSE cursorY = 2 /\ getAppFromCursor(cursorY) = Nil)
    /\ [][ guiOpen /\ Len(applications) = 0 =>
               pendingApp' = Nil /\ runErr' # "ErrRestart" ]_vars

\* an entry was added to a list of two and the cursor was moved down to it
C20_Witness ==
    /\ guiOpen
    /\ Len(applications) = 3
    /\ applications[3] = [Name |-> "htop", Command |-> "htop"]
    /\ cursorY = 4
    /\ currentView = "list"

\* C21: frame conditions of the three-panel model.  navigateUp and
\* navigateDown change at most the focused panel's cursor: the other
\* cursors, focus, rightTitle, rightBody and the entries stay.
\* activateCurrent changes at most rightTitle and rightBody.  A quit key, a
\* key without a binding and a window-size message change none of focus,
\* the cursors, rightTitle and rightBody.
C21_FrameConditions ==
    [][ /\ (\E key \in { "up", "k", "down", "j" } : UpdateKey(key)) =>
               /\ \A p \in Panels \ { focus } : CursorOf(p)' = CursorOf(p)
               /\ UNCHANGED << focus, paneVars, itemVars >>
        /\ Activation => UNCHANGED << focus, cursorVars, itemVars >>
        /\ \/ \E key \in { "ctrl+c", "q", "x" } : UpdateKey(key)
           \/ \E size \in WindowSizes : UpdateWindowSize(size)
           => UNCHANGED << focus, cursorVars, paneVars, itemVars >>
      ]_vars

\* cursors were moved, an entry was activated, the window was resized and
\* the quit key was pressed: what the earlier messages set is still there
C21_Witness ==
    /\ teaState = "quit"
    /\ width = 120
    /\ focus = PanelDirs
    /\ topCursor = 2
    /\ midCursor = 1
    /\ rightTitle = PreviewTitlePrefix \o halfName(InitialTop2Title)

\* C22: the two goroutines of runApplication end with the child.  The main
\* goroutine passes "err := <-done" only when the child has exited and the
\* wait goroutine has sent; a closed sigChan has no notification installed
\* (signal.Stop came first) and never gains a signal; the wait goroutine's
\* send finds the buffer of done empty.  With every goroutine scheduled, a
\* child's exit leads to the close of sigChan (unless the host is killed
\* between signal.Stop and close), the close leads to the end of the range
\* loop (fwdpc "none": the next launch has made its own channel), and the
\* wait goroutine leaves its send.
C22_GoroutinesEndWithChild ==
    /\ [](rpc \in { "stop", "close", "classify" } =>
              childState = "exited" /\ waitpc = "end")
    /\ [](sigClosed => ~notify)
    /\ [][sigClosed /\ sigClosed' => Len(sigChan') <= Len(sigChan)]_vars
    /\ [](waitpc = "wait" => Len(done) = 0)
    /\ (childState = "exited") ~> (sigClosed \/ hostpc = "terminated")
    /\ sigClosed ~> (fwdpc \in { "end", "none" } \/ hostpc = "terminated")
    /\ (waitpc = "wait" /\ childState = "exited") ~> (waitpc # "wait")

C22_Witness ==
    /\ rpc = "classify" /\ sigClosed /\ ~notify
    /\ fwdpc = "end" /\ waitpc = "end"
    /\ childState = "exited" /\ nRecv > 0

\* runApplication is about to return and no child was started
StartFailed ==
    hostpc = "runApplication" /\ rpc = "return" /\ childState = "none"

\* C23: when cmd.Start fails, runApplication logs once and goes straight to
\* its return: no notification is installed, no channel is made or closed,
\* neither goroutine is started and no child exists; runApplication can
\* return at once, and the host's next move is main's loop calling run()
\* again (or the default action of a signal, as before the call).
C23_FailedStartReturns ==
    /\ [][CmdStartFails =>
              /\ startLogged' = startLogged + 1
              /\ StartFailed'
              /\ UNCHANGED << sigVars, goVars, childVars, runLogged >>]_vars
    /\ [](StartFailed =>
              /\ ~notify /\ waitpc = "none" /\ fwdpc = "none"
              /\ ENABLED Return)
    /\ [][StartFailed /\ hostpc' # hostpc =>
              hostpc' = "loop" \/ exitReason' = "signal"]_vars
    /\ [](hostpc = "runApplication" /\ childState = "none" =>
              rpc \in { "start", "return" } /\ ~notify)

C23_Witness == StartFailed /\ startLogged = 1 /\ requested = 1

\* the UI loop runs and one of the modal's input views is the current view
ModalOpen == hostpc = "ui" /\ currentView \in { "add_name", "add_cmd" }

SavesNothing ==
    /\ \E result \in WriteResults : SaveNewApp(result)
    /\ trimViewText(nameText) = "" \/ trimViewText(cmdText) = ""

\* C25: saveNewApp with an empty name or an empty command changes neither
\* the list nor config.json, and the modal's views, its texts and the
\* current view stay as they are; whenever the list grows while the UI loop
\* runs, the entry at its end has a non-empty name and a non-empty command.
C25_EmptySaveIsNoOp ==
    /\ [][SavesNothing =>
              UNCHANGED << applications, configFile, modalVars, cursorY >>]_vars
    /\ [][hostpc = "ui" /\ Len(applications') > Len(applications) =>
              /\ applications'[Len(applications')].Name # ""
              /\ applications'[Len(applications')].Command # ""]_vars
    /\ [](ModalOpen /\ currentView = "add_cmd" /\ (nameText = "" \/ cmdText = "")
              => ENABLED SavesNothing)

C25_Witness ==
    /\ ModalOpen /\ currentView = "add_cmd"
    /\ nameText = "" /\ cmdText = "htop"
    /\ ENABLED SavesNothing

\* C26: after every step of saveNewApp config.json is a configuration
\* document whose applications are the in-memory list.
C26_PersistedEqualsMemory ==
    [][(\E result \in WriteResults : SaveNewApp(result)) =>
           /\ configFile'.kind = "ok"
           /\ UnmarshalConfig(configFile'.doc) = applications']_vars

\* C27: in the two-pane prototype the focused panel is always
\* NavigationPanel or MainPanel, never StatusPanel; tab moves the focus to
\* the other of the two (so two tabs bring it back) and changes no cursor
\* and no selection; navCursor and mainCursor are always indices of their
\* lists.
C27_TabTogglesTwoPanels ==
    /\ [](panel \in { NavigationPanel, MainPanel } /\ panel # StatusPanel)
    /\ [](/\ navCursor \in 0..(Len(navItems) - 1)
          /\ mainCursor \in 0..(Len(choices) - 1))
    /\ [][TwoPaneUpdateKey("tab") =>
              /\ panel' \in { NavigationPanel, MainPanel } \ { panel }
              /\ tabPanel(panel') = panel
              /\ UNCHANGED << navCursor, mainCursor, selected >>]_vars

C27_Witness ==
    /\ panel = NavigationPanel
    /\ navCursor = Len(navItems) - 1
    /\ mainCursor = Len(choices) - 1
    /\ selected = { 0, Len(choices) - 1 }
    /\ teaState = "quit"

=============================================================================
